---- MODULE Spec2Model ----
\* Verification model of src/src/fekete.py (hermes1d): Mesh1D, the mesh part of
\* Function, generate_candidates and the candidate scoring.
\*
\* Coordinates are doubles on an integer grid.  One grid unit is 2^-41
\* (4.547e-13), so that the grid points, their differences, midpoints and
\* quarter points are doubles and the code's arithmetic on them is exact.  The
\* tolerance 1e-12 is 2.199 units and the tolerance 1e-10 is 219.9 units:
\* neither is a grid distance, so abs(d) < eps never falls on the boundary; the
\* comparisons are made on twice the values.  Element ids and node ids are 0-based as in Python; sequences are
\* 1-based, so Python's s[i] is s[i+1] here.
EXTENDS Integers, Sequences, FiniteSets, TLC

VARIABLES pc, mesh, other, lhs, rhs, xA, xB, elem, errs, ret, depth

vars == <<pc, mesh, other, lhs, rhs, xA, xB, elem, errs, ret, depth>>

----------------------------------------------------------------------------
\* Bounds of the model.

\* Largest number of elements of an input mesh.
MaxElems == 3
\* Largest polynomial order of an element of an input mesh.
MaxOrder == 2
\* Cap on the recursion depth of Function.__add__ the model follows.
MaxDepth == 3

----------------------------------------------------------------------------
\* Tolerances, doubled and rounded up, in grid units (eps = 1e-12 -> 4.398,
\* eps = 1e-10 -> 439.8): 2*abs(d) is an even number of units, below eps2
\* exactly when abs(d) < 1e-12 and below node_eps2 exactly when abs(d) < 1e-10.

eps2 == 5
node_eps2 == 440

Abs(x) == IF x < 0 THEN 0 - x ELSE x

\* abs(x - y) < eps with eps = 1e-12
Close(x, y) == 2 * Abs(x - y) < eps2

\* abs(node - x) < eps with eps = 1e-10
NodeClose(node, x) == 2 * Abs(node - x) < node_eps2

\* Python's None as the value of a function that falls off its end.
None == 0 - 1

\* A raised exception, shaped like a mesh value so that results compare.
Raise(k) == [kind |-> k, points |-> <<>>, orders |-> <<>>]

NoValue == Raise("none")

IsMesh(r) == r.kind = "Mesh1D"

\* Mesh1D.__init__
Mesh1D(points, orders) ==
    IF ~(Len(points) = Len(orders) + 1)
    THEN Raise("Exception")
    ELSE [kind |-> "Mesh1D", points |-> points, orders |-> orders]

\* Mesh1D.iter_elems: the triples (a, b, order), left to right.
iter_elems(m) ==
    [i \in 1..Len(m.orders) |-> <<m.points[i], m.points[i + 1], m.orders[i]>>]

\* The loop of element_at_point with the mutation "skip while b <= x".
RECURSIVE element_scan_right(_, _, _)
element_scan_right(m, x2, n) ==
    IF n >= Len(m.orders) THEN None
    ELSE IF 2 * iter_elems(m)[n + 1][2] <= x2 THEN element_scan_right(m, x2, n + 1)
    ELSE n

\* The loop of element_at_point from element n on, for a point given doubled
\* (x2 = 2*x), so that the midpoints union() asks about stay on the grid.
RECURSIVE element_scan(_, _, _)
element_scan(m, x2, n) ==
    IF n >= Len(m.orders) THEN None
    ELSE IF 2 * iter_elems(m)[n + 1][2] < x2 THEN element_scan(m, x2, n + 1)
    ELSE n

\* Mesh1D.element_at_point
element_at_point(m, x) == element_scan(m, 2 * x, 0)

\* Mesh1D.get_element_by_id
get_element_by_id(m, id) == iter_elems(m)[id + 1]

\* The loop of get_node_id_by_coord from node i on.
RECURSIVE node_scan(_, _, _)
node_scan(m, x, i) ==
    IF i >= Len(m.points) THEN None
    ELSE IF NodeClose(m.points[i + 1], x) THEN i
    ELSE node_scan(m, x, i + 1)

\* Mesh1D.get_node_id_by_coord; None stands for ValueError("Node not found").
get_node_id_by_coord(m, x) == node_scan(m, x, 0)

\* A partly built (points, orders) pair of restrict_to_interval.
Acc(points, orders) == [kind |-> "acc", points |-> points, orders |-> orders]

\* The "first element" block with the mutation "a = A is forgotten".
restrict_first_noclip(m, A, n1) ==
    LET e == get_element_by_id(m, n1)
        a == e[1]
        b == e[2]
        order == e[3]
    IN  IF Close(b, A) THEN Acc(<<>>, <<>>)
        ELSE IF Close(a, A) THEN Acc(<<a>>, <<order>>)
        ELSE IF a < A THEN Acc(<<a>>, <<order>>)
        ELSE Raise("NotImplementedError")

\* restrict_to_interval, "first element" block: the lists after it, or the raise.
restrict_first(m, A, n1) ==
    LET e == get_element_by_id(m, n1)
        a == e[1]
        b == e[2]
        order == e[3]
    IN  IF Close(b, A) THEN Acc(<<>>, <<>>)
        ELSE IF Close(a, A) THEN Acc(<<a>>, <<order>>)
        ELSE IF a < A THEN Acc(<<A>>, <<order>>)
        ELSE Raise("NotImplementedError")

\* restrict_to_interval, "middle elements" loop: for n in range(n, n2).
RECURSIVE restrict_middle(_, _, _, _)
restrict_middle(m, acc, n, n2) ==
    IF n >= n2 THEN acc
    ELSE LET e == get_element_by_id(m, n)
         IN  restrict_middle(m, Acc(Append(acc.points, e[1]), Append(acc.orders, e[3])),
                             n + 1, n2)

\* restrict_to_interval, "last element" block and the construction of the result.
restrict_last(m, acc, A, B, n2) ==
    LET e == get_element_by_id(m, n2)
        a0 == e[1]
        b0 == e[2]
        order == e[3]
        a == IF Close(a0, A) THEN a0 ELSE IF a0 < A THEN A ELSE a0
        points == IF Len(acc.points) = 0 \/ ~Close(acc.points[Len(acc.points)], a)
                  THEN Append(acc.points, a) ELSE acc.points
        orders == IF Len(acc.points) = 0 \/ ~Close(acc.points[Len(acc.points)], a)
                  THEN Append(acc.orders, order) ELSE acc.orders
    IN  IF Close(b0, B) THEN Mesh1D(Append(points, b0), orders)
        ELSE IF B < b0 THEN Mesh1D(Append(points, B), orders)
        ELSE Raise("NotImplementedError")

\* Mesh1D.restrict_to_interval.  get_element_by_id(None) and range(n1+1, None)
\* raise TypeError.
restrict_to_interval(m, A, B) ==
    IF ~(B > A) THEN Raise("AssertionError")
    ELSE LET n1 == element_at_point(m, A)
             n2 == element_at_point(m, B)
         IN  IF n1 = None THEN Raise("TypeError")
             ELSE LET first == restrict_first(m, A, n1)
                  IN  IF first.kind # "acc" THEN first
                      ELSE IF n2 = None THEN Raise("TypeError")
                      ELSE restrict_last(m, restrict_middle(m, first, n1 + 1, n2), A, B, n2)

\* list.sort() on numbers: insertion into the sorted prefix.
RECURSIVE insert_sorted(_, _)
insert_sorted(s, x) ==
    IF Len(s) = 0 THEN <<x>>
    ELSE IF x < s[1] THEN <<x>> \o s
    ELSE <<s[1]>> \o insert_sorted(Tail(s), x)

RECURSIVE sort(_)
sort(s) == IF Len(s) = 0 THEN <<>> ELSE insert_sorted(sort(SubSeq(s, 1, Len(s) - 1)), s[Len(s)])

\* The dedup loop with the mutation "points[-1] == point".
RECURSIVE union_points_exact(_, _)
union_points_exact(points, rest) ==
    IF Len(rest) = 0 THEN points
    ELSE IF points[Len(points)] = rest[1] THEN union_points_exact(points, Tail(rest))
    ELSE union_points_exact(Append(points, rest[1]), Tail(rest))

\* union(), the dedup loop: points so far, and the points of p still to visit.
RECURSIVE union_points(_, _)
union_points(points, rest) ==
    IF Len(rest) = 0 THEN points
    ELSE IF Close(points[Len(points)], rest[1]) THEN union_points(points, Tail(rest))
    ELSE union_points(Append(points, rest[1]), Tail(rest))

Max(x, y) == IF x >= y THEN x ELSE y

\* One pass of the orders loop with the mutation "the other mesh is not asked".
union_order_self(m, o, p1, p2) ==
    LET n1 == element_scan(m, p1 + p2, 0)
        n2 == element_scan(o, p1 + p2, 0)
    IN  IF n1 = None \/ n2 = None THEN None
        ELSE m.orders[n1 + 1]

\* union(), one pass of the orders loop: the order for the sub-interval
\* (p1, p2), whose midpoint is asked for doubled; None when a lookup gave None.
union_order(m, o, p1, p2) ==
    LET n1 == element_scan(m, p1 + p2, 0)
        n2 == element_scan(o, p1 + p2, 0)
    IN  IF n1 = None \/ n2 = None THEN None
        ELSE Max(m.orders[n1 + 1], o.orders[n2 + 1])

\* Mesh1D.union.  Indexing _orders with None raises TypeError.
union(m, o) ==
    LET p == sort(m.points \o o.points)
        points == union_points(<<p[1]>>, Tail(p))
        orders == [n \in 1..(Len(points) - 1) |-> union_order(m, o, points[n], points[n + 1])]
    IN  IF \E n \in 1..Len(orders) : orders[n] = None THEN Raise("TypeError")
        ELSE Mesh1D(points, orders)

\* Function.project_onto with the mutation "the function keeps its own mesh".
project_onto_self(f, m) == f

\* Function.project_onto: the mesh of Function(self, mesh).
project_onto(f, m) == m

\* Mesh1D.__eq__ (both operands are meshes): numpy compares the points one by
\* one, which the equal orders make equally many.
__eq__(m, o) ==
    /\ m.orders = o.orders
    /\ \A i \in 1..Len(m.points) : Close(m.points[i], o.points[i])

First(m) == m.points[1]
Last(m) == m.points[Len(m.points)]

\* Function(f, m) samples f in the Fekete points of every element of m, which
\* lie in the element and include its end points when its order is 1 or more;
\* Function.__call__ falls off its loop and returns None for a point right of
\* f's last breakpoint, and the None is stored.  The single point of an element
\* of order 0 is taken to be its midpoint.
samples_none(f, m) ==
    \E i \in 1..Len(m.orders) :
        IF m.orders[i] >= 1 THEN m.points[i + 1] > Last(f)
        ELSE m.points[i] + m.points[i + 1] > 2 * Last(f)

\* array(values) for the values of a function on m: a 2-D array when every
\* element has equally many values, and otherwise, with the numpy of the
\* source's Python 2, a 1-D array whose entries are the lists.
rectangular(m) == \A i, j \in 1..Len(m.orders) : m.orders[i] = m.orders[j]

\* The values added by Function.__add__ for operands on the meshes a and b
\* (which hold no None themselves) hold a None: the meshes differ and one
\* operand, sampled on the union mesh, is asked for a point right of its end.
sum_holds_none(a, b) ==
    /\ ~__eq__(a, b)
    /\ \E union_mesh \in {union(a, b)} :
          /\ IsMesh(union_mesh)
          /\ samples_none(a, union_mesh) \/ samples_none(b, union_mesh)

\* Function.__add__ for operands on the meshes a and b whose values hold no
\* None: the mesh of the sum, or the exception raised.  Equal meshes add their
\* values at once.  Otherwise the union may raise (TypeError); both operands
\* are sampled on the union mesh and __add__ is entered again, on equal meshes.
\* There a 2-D array with a None in it raises TypeError on the addition, while
\* the addition of 1-D arrays of lists concatenates the lists and does not
\* look at the values.
__add__(a, b) ==
    IF __eq__(a, b) THEN a
    ELSE LET union_mesh == union(a, b)
         IN  IF ~IsMesh(union_mesh) THEN union_mesh
             ELSE IF /\ rectangular(union_mesh)
                     /\ samples_none(a, union_mesh) \/ samples_none(b, union_mesh)
             THEN Raise("TypeError")
             ELSE project_onto(a, union_mesh)

\* Function.__sub__: self + (-o); the negation keeps the mesh.
__sub__(a, b) == __add__(a, b)

\* Function.dofs (it reads the mesh alone).
RECURSIVE SumSeq(_)
SumSeq(s) == IF Len(s) = 0 THEN 0 ELSE s[1] + SumSeq(Tail(s))

dofs(m) == 1 + SumSeq(m.orders)

\* get_x_phys for a reference point x_ref = <<numerator, denominator>>; the
\* elements it is asked about divide exactly.
get_x_phys(x_ref, a, b) ==
    ((a + b) * x_ref[2] + x_ref[1] * (b - a)) \div (2 * x_ref[2])

\* cand() of generate_candidates
cand(a, b, order, divisions, orders) ==
    IF Len(divisions) = 0
    THEN IF Len(orders) = 1 THEN Mesh1D(<<a, b>>, <<order + orders[1]>>)
         ELSE Raise("AssertionError")
    ELSE IF Len(divisions) = 1
    THEN IF Len(orders) = 2
         THEN Mesh1D(<<a, get_x_phys(divisions[1], a, b), b>>,
                     <<order + orders[1], order + orders[2]>>)
         ELSE Raise("AssertionError")
    ELSE Raise("NotImplementedError")

\* The reference point 0.5 of the split candidates.
half == <<1, 2>>

\* generate_candidates with the mutation "if order > 0".
generate_candidates_order1(a, b, order) ==
    << cand(a, b, order, <<>>, <<0>>),
       cand(a, b, order, <<>>, <<1>>),
       cand(a, b, order, <<>>, <<2>>),
       cand(a, b, order, <<half>>, <<0, 0>>),
       cand(a, b, order, <<half>>, <<1, 0>>),
       cand(a, b, order, <<half>>, <<0, 1>>),
       cand(a, b, order, <<half>>, <<1, 1>>) >> \o
    (IF order > 0
     THEN << cand(a, b, order, <<half>>, <<0 - 1, 0>>),
             cand(a, b, order, <<half>>, <<0, 0 - 1>>),
             cand(a, b, order, <<half>>, <<0 - 1, 0 - 1>>) >>
     ELSE <<>>)

\* generate_candidates
generate_candidates(a, b, order) ==
    << cand(a, b, order, <<>>, <<0>>),
       cand(a, b, order, <<>>, <<1>>),
       cand(a, b, order, <<>>, <<2>>),
       cand(a, b, order, <<half>>, <<0, 0>>),
       cand(a, b, order, <<half>>, <<1, 0>>),
       cand(a, b, order, <<half>>, <<0, 1>>),
       cand(a, b, order, <<half>>, <<1, 1>>) >> \o
    (IF order > 1
     THEN << cand(a, b, order, <<half>>, <<0 - 1, 0>>),
             cand(a, b, order, <<half>>, <<0, 0 - 1>>),
             cand(a, b, order, <<half>>, <<0 - 1, 0 - 1>>) >>
     ELSE <<>>)

\* Mesh1D.use_candidate with the mutation "self._points[n2:]".
use_candidate_keep_node(m, c) ==
    LET n1 == get_node_id_by_coord(m, c.points[1])
        n2 == get_node_id_by_coord(m, c.points[Len(c.points)])
    IN  IF n1 = None \/ n2 = None THEN Raise("ValueError")
        ELSE Mesh1D(SubSeq(m.points, 1, n1) \o c.points
                        \o SubSeq(m.points, n2 + 1, Len(m.points)),
                    SubSeq(m.orders, 1, n1) \o c.orders
                        \o SubSeq(m.orders, n2 + 1, Len(m.orders)))

\* Mesh1D.use_candidate; a failed node lookup raises ValueError("Node not found").
use_candidate(m, c) ==
    LET n1 == get_node_id_by_coord(m, c.points[1])
        n2 == get_node_id_by_coord(m, c.points[Len(c.points)])
    IN  IF n1 = None \/ n2 = None THEN Raise("ValueError")
        ELSE Mesh1D(SubSeq(m.points, 1, n1) \o c.points
                        \o SubSeq(m.points, n2 + 2, Len(m.points)),
                    SubSeq(m.orders, 1, n1) \o c.orders
                        \o SubSeq(m.orders, n2 + 1, Len(m.orders)))

\* An error norm: zero, exp(ln), or nan.
Err(ln) == [zero |-> FALSE, nan |-> FALSE, ln |-> ln]
ZeroErr == [zero |-> TRUE, nan |-> FALSE, ln |-> 0]
NanErr == [zero |-> FALSE, nan |-> TRUE, ln |-> 0]

\* (a - b).l2_norm() for a and b on the meshes a and b, the difference taken
\* without an exception: v, the sum of the quadratures, when every value of
\* the difference is a number.  A None among the values becomes nan in
\* get_polynomial's array, the polynomial of that element and its quadrature
\* are nan, and so is the sum.
l2_norm(a, b, v) == IF sum_holds_none(a, b) THEN NanErr ELSE v

\* e1 < e2 on error norms; every comparison with nan is False.
ErrLess(e1, e2) ==
    IF e1.nan \/ e2.nan THEN FALSE
    ELSE IF e1.zero THEN ~e2.zero
    ELSE IF e2.zero THEN FALSE
    ELSE e1.ln < e2.ln

\* A score: cls * 1e10 + num / sqrt(den).  The scores of the middle branch
\* have cls = 0; they are quotients of a difference of logarithms of floats,
\* so they lie strictly between -1e10 and 1e10.
Score(cls, num, den) ==
    [kind |-> "score", nan |-> FALSE, cls |-> cls, num |-> num, den |-> den]

\* The score nan.
NanScore == [kind |-> "score", nan |-> TRUE, cls |-> 0, num |-> 0, den |-> 1]

\* get_candidates_with_errors, the scoring rule; math.log(0) raises ValueError
\* and math.log(nan) is nan.
crit(dof_cand, err_cand, dof_orig, err_orig) ==
    IF dof_cand = dof_orig
    THEN IF ErrLess(err_cand, err_orig) THEN Score(0 - 1, 0, 1) ELSE Score(1, 0, 1)
    ELSE IF dof_cand > dof_orig
    THEN IF err_cand.zero \/ err_orig.zero THEN Raise("ValueError")
         ELSE IF err_cand.nan \/ err_orig.nan THEN NanScore
         ELSE Score(0, err_cand.ln - err_orig.ln, dof_cand - dof_orig)
    ELSE Raise("NotImplementedError")

\* c1 < c2 on scores: n1/sqrt(d1) < n2/sqrt(d2) is decided on the squares;
\* every comparison with nan is False.
ScoreLess(c1, c2) ==
    IF c1.nan \/ c2.nan THEN FALSE
    ELSE IF c1.cls # c2.cls THEN c1.cls < c2.cls
    ELSE IF c1.num < 0 /\ c2.num >= 0 THEN TRUE
    ELSE IF c1.num >= 0 /\ c2.num < 0 THEN FALSE
    ELSE IF c1.num >= 0 THEN c1.num * c1.num * c2.den < c2.num * c2.num * c1.den
    ELSE c1.num * c1.num * c2.den > c2.num * c2.num * c1.den

\* list.sort(key=lambda x: x[1]) compares the keys with < alone.  A list of
\* fewer than 64 pairs is sorted as one run: count_run finds the run the list
\* starts with (ascending, or strictly descending and then reversed), and
\* binarysort inserts the pairs after it one by one at the place a bisection
\* of the sorted part finds.  With keys that are numbers this is the stable
\* sort, of a list of any length; a key nan is less than nothing and nothing
\* is less than it.

\* count_run: the length of the run s starts with, from its pair k on
\* (Len(s) >= 2, k >= 3).
RECURSIVE run_length(_, _, _)
run_length(s, k, descending) ==
    IF k > Len(s) THEN Len(s)
    ELSE IF ScoreLess(s[k].crit, s[k - 1].crit) = descending
    THEN run_length(s, k + 1, descending)
    ELSE k - 1

count_run(s) ==
    LET descending == ScoreLess(s[2].crit, s[1].crit)
    IN  [n |-> run_length(s, 3, descending), descending |-> descending]

\* reverse_slice of the first n pairs.
reverse_slice(s, n) == [i \in 1..Len(s) |-> IF i <= n THEN s[n + 1 - i] ELSE s[i]]

\* The bisection of binarysort: the number of pairs of s[0:r] the pivot is
\* put behind.
RECURSIVE bisect(_, _, _, _)
bisect(s, pivot, l, r) ==
    IF l >= r THEN l
    ELSE LET p == l + (r - l) \div 2
         IN  IF ScoreLess(pivot.crit, s[p + 1].crit) THEN bisect(s, pivot, l, p)
             ELSE bisect(s, pivot, p + 1, r)

\* binarysort: the first start pairs are sorted, the others are inserted.
RECURSIVE binarysort(_, _)
binarysort(s, start) ==
    IF start >= Len(s) THEN s
    ELSE LET pivot == s[start + 1]
             l == bisect(s, pivot, 0, start)
         IN  binarysort(SubSeq(s, 1, l) \o <<pivot>> \o SubSeq(s, l + 1, start)
                            \o SubSeq(s, start + 2, Len(s)),
                        start + 1)

sort_by_crit(s) ==
    IF Len(s) < 2 THEN s
    ELSE LET run == count_run(s)
         IN  binarysort(IF run.descending THEN reverse_slice(s, run.n) ELSE s, run.n)

\* A value with a list in it: the candidates generated, the pairs scored.
ListValue(k, list) == [kind |-> k, points |-> <<>>, orders |-> <<>>, list |-> list]

\* The rule applied and the pair appended for the candidate c (lines 374-390),
\* or the exception the rule raises.
score_pair(c, dof_cand, err_cand, dof_orig, err_orig) ==
    LET cr == crit(dof_cand, err_cand, dof_orig, err_orig)
    IN  IF cr.kind # "score" THEN Raise(cr.kind)
        ELSE [kind |-> "pair", m |-> c, crit |-> cr]

\* One pass of the inner loop of get_candidates_with_errors for candidate j of
\* element i, c of the element el: the pair appended, or the exception raised.
\* e holds the error norms the quadrature returns: e.orig[i] and e.cand[i][j].
\* self is f.project_onto(m), as in main().  A None among the values of self
\* becomes nan in get_polynomial's array and raises nothing, and an element
\* that ends right of f's last breakpoint fails in the restriction of f (line
\* 369), so that cand, sampled from f, holds no None.  The two differences
\* and their norms (lines 371 and 373) are taken before the rule looks at the
\* degrees of freedom; the norm of a difference that holds a None is nan.
score_candidate(m, f, e, i, j, el, c) ==
    LET orig == restrict_to_interval(m, el[1], el[2])
        f2 == restrict_to_interval(f, el[1], el[2])
    IN  IF ~IsMesh(orig) THEN orig
        ELSE IF ~IsMesh(f2) THEN f2
        ELSE LET diff_cand == __sub__(f2, c)
                 diff_orig == __sub__(f2, orig)
             IN  IF ~IsMesh(diff_cand) THEN diff_cand
                 ELSE IF ~IsMesh(diff_orig) THEN diff_orig
                 ELSE CHOOSE pair \in
                          {score_pair(c, dofs(c), err_cand, dofs(orig), err_orig) :
                              err_cand \in {l2_norm(f2, c, e.cand[i][j])},
                              err_orig \in {l2_norm(f2, orig, e.orig[i])}} : TRUE

\* The inner loop of get_candidates_with_errors from candidate j of element i
\* on: the list with the pairs appended, or the exception raised.
RECURSIVE score_cands(_, _, _, _, _, _, _, _)
score_cands(m, f, e, i, j, el, cands, acc) ==
    IF j > Len(cands) THEN ListValue("acc", acc)
    ELSE LET pair == score_candidate(m, f, e, i, j, el, cands[j])
         IN  IF pair.kind # "pair" THEN ListValue(pair.kind, <<>>)
             ELSE score_cands(m, f, e, i, j + 1, el, cands, Append(acc, pair))

\* The outer loop of get_candidates_with_errors from element i on, and the sort.
RECURSIVE score_loop(_, _, _, _, _)
score_loop(m, f, e, i, acc) ==
    IF i > Len(m.orders) THEN ListValue("list", sort_by_crit(acc))
    ELSE LET el == iter_elems(m)[i]
             done == score_cands(m, f, e, i, 1, el,
                                 generate_candidates(el[1], el[2], el[3]), acc)
         IN  IF done.kind # "acc" THEN done
             ELSE score_loop(m, f, e, i + 1, done.list)

\* Function.get_candidates_with_errors for self on mesh m and the reference
\* function on mesh f.
get_candidates_with_errors(m, f, e) == score_loop(m, f, e, 1, <<>>)

----------------------------------------------------------------------------
\* Input meshes.

Orders == 0..MaxOrder

\* Well-formed meshes with breakpoints in S and n elements.
MeshesOver(S, n) ==
    {Mesh1D(p, o) : p \in {t \in [1..(n + 1) -> S] : \A i \in 1..n : t[i] < t[i + 1]},
                    o \in [1..n -> Orders]}

\* Breakpoints of the meshes restricted, and the interval ends tried on them.
RestrictNodes == {0, 2, 8, 16, 24}
RestrictEnds == {0 - 4, 0 - 1, 0, 1, 2, 3, 4, 8, 9, 12, 16, 17, 20, 24, 25, 28}

RestrictMeshes == UNION {MeshesOver(RestrictNodes, n) : n \in 1..MaxElems}

----------------------------------------------------------------------------
\* Restriction and point location: one call on drawn arguments.

InitRestrict ==
    /\ pc = "start"
    /\ mesh \in RestrictMeshes
    /\ other = NoValue /\ lhs = NoValue /\ rhs = NoValue
    /\ xA \in RestrictEnds
    /\ xB \in RestrictEnds
    /\ elem = <<0, 0, 0>>
    /\ errs = NoValue
    /\ ret = NoValue
    /\ depth = 0

\* mesh.restrict_to_interval(xA, xB)
RestrictToInterval ==
    /\ pc = "start"
    /\ pc' = "restricted"
    /\ ret' = restrict_to_interval(mesh, xA, xB)
    /\ UNCHANGED <<mesh, other, lhs, rhs, xA, xB, elem, errs, depth>>

\* mesh.element_at_point(xA)
ElementAtPoint ==
    /\ pc = "start"
    /\ pc' = "located"
    /\ ret' = [kind |-> "id", points |-> <<>>, orders |-> <<>>, id |-> element_at_point(mesh, xA)]
    /\ UNCHANGED <<mesh, other, lhs, rhs, xA, xB, elem, errs, depth>>

NextRestrict == RestrictToInterval \/ ElementAtPoint

SpecRestrict == InitRestrict /\ [][NextRestrict]_vars

----------------------------------------------------------------------------
\* Union and addition: calls on two drawn meshes over the same interval.

UnionEnds == <<0, 16>>
UnionNodes == {2, 4, 13, 15}

\* Well-formed meshes on [UnionLeft, UnionRight] with n elements.
UnionMeshesOf(n) ==
    {m \in MeshesOver({UnionEnds[1], UnionEnds[2]} \cup UnionNodes, n) :
        /\ m.points[1] = UnionEnds[1] /\ m.points[n + 1] = UnionEnds[2]
        /\ \A i \in 1..n : m.orders[i] >= 1}

InitUnion ==
    /\ pc = "start"
    /\ mesh \in UNION {UnionMeshesOf(n) : n \in 1..MaxElems}
    /\ other \in UNION {UnionMeshesOf(n) : n \in 1..(MaxElems - 1)}
    /\ lhs = mesh /\ rhs = other
    /\ xA = 0 /\ xB = 0
    /\ elem = <<0, 0, 0>>
    /\ errs = NoValue
    /\ ret = NoValue
    /\ depth = 0

\* mesh.union(other)
Union ==
    /\ pc = "start"
    /\ pc' = "united"
    /\ ret' = union(mesh, other)
    /\ UNCHANGED <<mesh, other, lhs, rhs, xA, xB, elem, errs, depth>>

\* Function.__add__, the branch self._mesh == o._mesh: the sum lives on self._mesh.
\* The meshes drawn span one interval, so that no value sampled on their union
\* is None.
AddEqual ==
    /\ pc \in {"start", "add"}
    /\ __eq__(lhs, rhs)
    /\ pc' = "returned"
    /\ ret' = lhs
    /\ UNCHANGED <<mesh, other, lhs, rhs, xA, xB, elem, errs, depth>>

\* Function.__add__, the else branch: both operands are projected onto the
\* union mesh and __add__ is entered again.
AddProject ==
    /\ pc \in {"start", "add"}
    /\ ~__eq__(lhs, rhs)
    /\ depth < MaxDepth
    /\ LET union_mesh == union(lhs, rhs)
       IN  IF IsMesh(union_mesh)
           THEN /\ lhs' = project_onto(lhs, union_mesh)
                /\ rhs' = project_onto(rhs, union_mesh)
                /\ depth' = depth + 1
                /\ pc' = "add"
                /\ ret' = ret
           ELSE /\ ret' = union_mesh
                /\ pc' = "raised"
                /\ UNCHANGED <<lhs, rhs, depth>>
    /\ UNCHANGED <<mesh, other, xA, xB, elem, errs>>

NextUnion == Union \/ AddEqual \/ AddProject

SpecUnion == InitUnion /\ [][NextUnion]_vars

----------------------------------------------------------------------------
\* One refinement step, as main() takes it: the candidates of the coarse mesh
\* are scored against a reference function and the best one is used.

\* Breakpoints of the coarse meshes: elements of widths 16, 32, 64, ...
RECURSIVE AdaptPoint(_)
AdaptPoint(i) == IF i = 1 THEN 0 ELSE 2 * AdaptPoint(i - 1) + 16

AdaptMeshes ==
    {Mesh1D([i \in 1..(n + 1) |-> AdaptPoint(i)], o) :
        n \in 1..(MaxElems - 1), o \in UNION {[1..k -> Orders] : k \in 1..(MaxElems - 1)}}
    \ {Raise("Exception")}

\* The mesh of the reference function: one element over the whole interval.
RefMesh(m) == Mesh1D(<<First(m), Last(m)>>, <<MaxOrder>>)

\* For a coarse mesh of one element, also reference meshes that end within
\* 1e-12 right of it, after a breakpoint within 1e-12 left of its end.
Overhang == {<<1, 2>>, <<2, 2>>}

\* The order of a reference function above the order of every candidate (12
\* in main()).
RefOrder == MaxOrder + 3

\* A reference mesh of unequal orders with breakpoints within 1e-12 left and
\* right of the end of the first element of m.
RaggedRefMesh(m) ==
    IF Len(m.orders) = 1
    THEN Mesh1D(<<First(m), m.points[2] - 2, m.points[2] + 2>>, <<RefOrder, 1>>)
    ELSE Mesh1D(<<First(m), m.points[2] - 2, m.points[2] + 2, Last(m)>>,
                <<RefOrder, 1, RefOrder>>)

RefMeshes(m) ==
    {RefMesh(m)} \cup
    {Mesh1D(<<First(m), Last(m) - d[1], Last(m) + d[2]>>, <<MaxOrder, MaxOrder>>) :
        d \in IF Len(m.orders) = 1 THEN Overhang ELSE {}} \cup
    (IF Len(m.orders) <= 2 THEN {RaggedRefMesh(m)} ELSE {})

\* Error norms the quadrature may return for the candidates of m: the error
\* changes by the factor exp(slope) with every degree of freedom added, except
\* at one place (candidate j of element i, or the element i itself for j = 0),
\* where it is v.
Slopes == {0 - 1, 1}
Deviations == {ZeroErr, Err(0 - 3), Err(3)}

CandsOf(m, i) == generate_candidates(iter_elems(m)[i][1], iter_elems(m)[i][2], iter_elems(m)[i][3])

Places(m) ==
    {<<0, 0>>} \cup
    UNION {{<<i, j>> : j \in 0..Len(CandsOf(m, i))} : i \in 1..Len(m.orders)}

ErrTable(m, slope, at, v) ==
    [orig |-> [i \in 1..Len(m.orders) |-> IF at = <<i, 0>> THEN v ELSE Err(0)],
     cand |-> [i \in 1..Len(m.orders) |->
                 LET cands == CandsOf(m, i)
                 IN  [j \in 1..Len(cands) |->
                        IF at = <<i, j>> THEN v
                        ELSE Err(slope * (dofs(cands[j]) - (1 + m.orders[i])))]]]

Init ==
    /\ pc = "start"
    /\ mesh \in AdaptMeshes
    /\ other \in RefMeshes(mesh)
    /\ lhs = NoValue /\ rhs = NoValue
    /\ xA = 0 /\ xB = 0
    /\ elem = <<0, 0, 0>>
    /\ errs = NoValue
    /\ ret = NoValue
    /\ depth = 0

\* generate_candidates(a, b, order) for an element of the coarse mesh
GenerateCandidates ==
    /\ pc = "start"
    /\ \E i \in 1..Len(mesh.orders) :
          /\ elem' = iter_elems(mesh)[i]
          /\ ret' = ListValue("cands", generate_candidates(elem'[1], elem'[2], elem'[3]))
    /\ pc' = "generated"
    /\ UNCHANGED <<mesh, other, lhs, rhs, xA, xB, errs, depth>>

\* g.get_candidates_with_errors(f)
GetCandidatesWithErrors ==
    /\ pc = "start"
    /\ \E slope \in Slopes, at \in Places(mesh), v \in Deviations :
          /\ errs' = ErrTable(mesh, slope, at, v)
          /\ ret' = get_candidates_with_errors(mesh, other, errs')
    /\ pc' = "scored"
    /\ UNCHANGED <<mesh, other, lhs, rhs, xA, xB, elem, depth>>

\* g_mesh.use_candidate(cand_with_errors[0][0])
Accept ==
    /\ pc = "scored"
    /\ ret.kind = "list"
    /\ lhs' = ret.list[1].m
    /\ ret' = use_candidate(mesh, ret.list[1].m)
    /\ pc' = "accepted"
    /\ UNCHANGED <<mesh, other, rhs, xA, xB, elem, errs, depth>>

Next == GenerateCandidates \/ GetCandidatesWithErrors \/ Accept

Spec == Init /\ [][Next]_vars

----------------------------------------------------------------------------
\* Candidate substitution: one call on a drawn parent mesh and candidate.

UseNodes == {0, 100, 400, 800}
UseEnds == {0, 100, 300, 400, 600, 800, 1100}

InitUse ==
    /\ pc = "start"
    /\ mesh \in UNION {MeshesOver(UseNodes, n) : n \in 1..MaxElems}
    /\ other \in MeshesOver(UseEnds, 1) \cup MeshesOver(UseEnds, 2)
    /\ lhs = NoValue /\ rhs = NoValue
    /\ xA = 0 /\ xB = 0
    /\ elem = <<0, 0, 0>>
    /\ errs = NoValue
    /\ ret = NoValue
    /\ depth = 0

\* mesh.use_candidate(other)
UseCandidate ==
    /\ pc = "start"
    /\ pc' = "used"
    /\ ret' = use_candidate(mesh, other)
    /\ UNCHANGED <<mesh, other, lhs, rhs, xA, xB, elem, errs, depth>>

NextUse == UseCandidate

SpecUse == InitUse /\ [][NextUse]_vars

----------------------------------------------------------------------------
\* The adaptive loop: main()'s step repeated, with any candidate of any element
\* of the current mesh used in place of the best one.

\* Breakpoints of the meshes the loop starts from (0, 2^-35 = 2.9e-11
\* and 2^-31 = 4.7e-10: the element ending at 64 is shorter than 1e-10).
LoopNodes == {0, 64, 1024}

InitLoop ==
    /\ pc = "start"
    /\ mesh \in UNION {MeshesOver(LoopNodes, n) : n \in 1..(MaxElems - 1)}
    /\ xA = First(mesh) /\ xB = Last(mesh)
    /\ other = NoValue
    /\ lhs = NoValue /\ rhs = NoValue
    /\ elem = <<0, 0, 0>>
    /\ errs = NoValue
    /\ ret = NoValue
    /\ depth = 0

\* g_mesh = g_mesh.use_candidate(c) for a candidate c of an element of g_mesh;
\* the step is taken for elements whose split point a + 3(b-a)/4 is on the grid
\* and for candidates of orders up to MaxOrder.
AdaptStep ==
    /\ pc \in {"start", "adapted"}
    /\ depth < MaxDepth
    /\ \E i \in 1..Len(mesh.orders) :
          /\ (iter_elems(mesh)[i][2] - iter_elems(mesh)[i][1]) % 4 = 0
          /\ \E j \in 1..Len(CandsOf(mesh, i)) :
                LET c == CandsOf(mesh, i)[j]
                IN  /\ \A k \in 1..Len(c.orders) : c.orders[k] <= MaxOrder
                    /\ elem' = iter_elems(mesh)[i]
                    /\ other' = c
                    /\ ret' = use_candidate(mesh, c)
    /\ lhs' = mesh
    /\ mesh' = ret'
    /\ pc' = IF IsMesh(ret') THEN "adapted" ELSE "raised"
    /\ depth' = depth + 1
    /\ UNCHANGED <<rhs, xA, xB, errs>>

NextLoop == AdaptStep

SpecLoop == InitLoop /\ [][NextLoop]_vars

----------------------------------------------------------------------------
\* Properties of restriction and point location.

\* Consecutive breakpoints are at least 1e-12 apart.
Separated(m) == \A i \in 1..Len(m.orders) : ~Close(m.points[i], m.points[i + 1])

\* x is a breakpoint of m, or at least 1e-12 away from every breakpoint.
ClearOf(m, x) == \A i \in 1..Len(m.points) : m.points[i] = x \/ ~Close(m.points[i], x)

\* A, the breakpoints strictly between A and B, B.
CutPoints(m, A, B) ==
    LET Inside(p) == A < p /\ p < B
    IN  <<A>> \o SelectSeq(m.points, Inside) \o <<B>>

\* The mesh the claim describes: the breakpoints A, those strictly between, B,
\* each element with the order of the element of m that contains it.
Restriction(m, A, B) ==
    LET cut == CutPoints(m, A, B)
        Holder(i) == CHOOSE j \in 1..Len(m.orders) :
                        m.points[j] <= cut[i] /\ cut[i + 1] <= m.points[j + 1]
    IN  Mesh1D(cut, [i \in 1..(Len(cut) - 1) |-> m.orders[Holder(i)]])

\* r == o for a result r of any kind and a mesh o.
EqualsMesh(r, o) == IsMesh(r) /\ __eq__(r, o)

InsideMesh(m, A, B) == First(m) <= A /\ A < B /\ B <= Last(m)

\* C6 as claimed: for every well-formed mesh and every A < B inside it, the
\* restriction has the breakpoints A, those strictly between A and B, B, the
\* orders of the containing elements (up to Mesh1D equality), and the
\* restriction to the whole interval equals the mesh.
C6_RestrictAnyCut ==
    (pc = "restricted" /\ InsideMesh(mesh, xA, xB)) =>
        /\ EqualsMesh(ret, Restriction(mesh, xA, xB))
        /\ (xA = First(mesh) /\ xB = Last(mesh)) => EqualsMesh(ret, mesh)

\* C6 amended: the same, for a mesh whose consecutive breakpoints are at least
\* 1e-12 apart and for A and B that are breakpoints or at least 1e-12 away from
\* every breakpoint.
C6_RestrictClearCut ==
    (pc = "restricted" /\ InsideMesh(mesh, xA, xB) /\ Separated(mesh)
        /\ ClearOf(mesh, xA) /\ ClearOf(mesh, xB)) =>
        /\ ret = Restriction(mesh, xA, xB)
        /\ (xA = First(mesh) /\ xB = Last(mesh)) => EqualsMesh(ret, mesh)

\* A restriction that clips the first element, passes over a middle element and
\* clips the last one.
C6_Witness ==
    /\ pc = "restricted" /\ InsideMesh(mesh, xA, xB) /\ Separated(mesh)
    /\ ClearOf(mesh, xA) /\ ClearOf(mesh, xB)
    /\ Len(mesh.orders) = 3
    /\ mesh.points[1] < xA /\ xA < mesh.points[2]
    /\ mesh.points[3] < xB /\ xB < mesh.points[4]
    /\ IsMesh(ret) /\ Len(ret.orders) = 3

\* x is the breakpoint with Python index k, shared by the elements k-1 and k.
SharedBreakpoint(m, x, k) == 0 < k /\ k < Len(m.points) - 1 /\ m.points[k + 1] = x

\* C7 as claimed: at a breakpoint shared by two elements, element_at_point
\* returns the element to the right, whose left bound is x.
C7_RightOfBreakpoint ==
    pc = "located" =>
        \A k \in 0..Len(mesh.points) :
            SharedBreakpoint(mesh, xA, k) =>
                ret.id = k /\ get_element_by_id(mesh, ret.id)[1] = xA

\* C7 amended: at a breakpoint shared by two elements, element_at_point returns
\* the element to the left, whose right bound is x.
C7_LeftOfBreakpoint ==
    pc = "located" =>
        \A k \in 0..Len(mesh.points) :
            SharedBreakpoint(mesh, xA, k) =>
                ret.id = k - 1 /\ get_element_by_id(mesh, ret.id)[2] = xA

\* A point located at the second interior breakpoint of a mesh of three elements.
C7_Witness ==
    /\ pc = "located" /\ Len(mesh.orders) = 3
    /\ SharedBreakpoint(mesh, xA, 2) /\ ret.id = 1

\* A lies more than 1e-12 below the first breakpoint / B above the last one.
BelowMesh(m, A) == 2 * (First(m) - A) > eps2
AboveMesh(m, B) == 2 * (B - Last(m)) > eps2

\* C8 as claimed: a restriction with A < B that reaches more than 1e-12 beyond
\* the mesh on either side fails with NotImplementedError.
C8_OutsideNotImplemented ==
    (pc = "restricted" /\ xA < xB /\ (BelowMesh(mesh, xA) \/ AboveMesh(mesh, xB))) =>
        ret.kind = "NotImplementedError"

----------------------------------------------------------------------------
\* Properties of union and addition.

\* C4 as claimed: union is commutative, and the union of a mesh with itself
\* equals the mesh, for every well-formed mesh.
C4_UnionCommutesIdempotent ==
    pc = "united" =>
        /\ EqualsMesh(ret, union(other, mesh))
        /\ mesh = other => EqualsMesh(ret, mesh)

\* C4 amended: union is commutative, and the union of a mesh with itself equals
\* the mesh when its consecutive breakpoints are at least 1e-12 apart.
C4_UnionCommutesIdempotentSeparated ==
    pc = "united" =>
        /\ EqualsMesh(ret, union(other, mesh))
        /\ (mesh = other /\ Separated(mesh)) => EqualsMesh(ret, mesh)

\* Unions of two different meshes and of a mesh with itself have been taken;
\* this one is of two meshes whose orders differ on both sides.
C4_Witness ==
    /\ pc = "united" /\ IsMesh(ret)
    /\ Len(mesh.orders) = 2 /\ Len(other.orders) = 2
    /\ mesh.points # other.points
    /\ mesh.orders[1] > other.orders[1] /\ mesh.orders[2] < other.orders[2]
    /\ Len(ret.orders) = 3

C4_WitnessSelf ==
    /\ pc = "united" /\ mesh = other /\ Separated(mesh) /\ Len(mesh.orders) = 2

Range(s) == {s[i] : i \in 1..Len(s)}

\* points is the sorted merge of the values S with values closer than 1e-12
\* collapsed: increasing values of S at least 1e-12 apart, and every value of S
\* is within 1e-12 above a value kept.
IsCollapsedMerge(points, S) ==
    /\ Range(points) \subseteq S
    /\ \A i \in 1..(Len(points) - 1) :
          points[i] < points[i + 1] /\ ~Close(points[i], points[i + 1])
    /\ \A x \in S : \E i \in 1..Len(points) : points[i] <= x /\ Close(points[i], x)

\* Element j (1-based) of m contains the point whose double is x2.
Contains(m, j, x2) == 2 * m.points[j] <= x2 /\ x2 <= 2 * m.points[j + 1]

\* Every element of r has the larger of the orders of an element of a and an
\* element of b that contain its midpoint.
HasEnvelopeOrders(r, a, b) ==
    /\ Len(r.orders) = Len(r.points) - 1
    /\ \A i \in 1..Len(r.orders) :
          \E j \in 1..Len(a.orders), k \in 1..Len(b.orders) :
              /\ Contains(a, j, r.points[i] + r.points[i + 1])
              /\ Contains(b, k, r.points[i] + r.points[i + 1])
              /\ r.orders[i] = Max(a.orders[j], b.orders[k])

\* c has a subset of the breakpoints of f and nowhere a higher order.
Coarser(c, f) ==
    /\ Range(c.points) \subseteq Range(f.points)
    /\ \A i \in 1..Len(f.orders), j \in 1..Len(c.orders) :
          (c.points[j] <= f.points[i] /\ f.points[i + 1] <= c.points[j + 1])
              => c.orders[j] <= f.orders[i]

\* C5 as claimed: the union has the collapsed sorted merge of the breakpoints,
\* the larger order at every midpoint, and the union with a coarser mesh of no
\* higher order equals the finer mesh.
C5_UnionEnvelope ==
    pc = "united" =>
        /\ IsMesh(ret)
        /\ IsCollapsedMerge(ret.points, Range(mesh.points) \cup Range(other.points))
        /\ HasEnvelopeOrders(ret, mesh, other)
        /\ Coarser(other, mesh) => EqualsMesh(ret, mesh)

\* C5 amended: the same, with the last part for a finer mesh whose consecutive
\* breakpoints are at least 1e-12 apart.
C5_UnionEnvelopeSeparated ==
    pc = "united" =>
        /\ IsMesh(ret)
        /\ IsCollapsedMerge(ret.points, Range(mesh.points) \cup Range(other.points))
        /\ HasEnvelopeOrders(ret, mesh, other)
        /\ (Coarser(other, mesh) /\ Separated(mesh)) => EqualsMesh(ret, mesh)

\* A union that collapsed a breakpoint into a neighbour closer than 1e-12 and
\* kept one that is within 1e-12 of the one collapsed.
C5_Witness ==
    /\ pc = "united" /\ IsMesh(ret)
    /\ \E x \in Range(mesh.points), y \in Range(other.points) :
          /\ x < y /\ Close(x, y) /\ Close(UnionEnds[1], x) /\ x # UnionEnds[1]
          /\ y \in Range(ret.points) /\ x \notin Range(ret.points)

\* A union with a coarser mesh of no higher order, taken of a separated mesh.
C5_WitnessCoarser ==
    /\ pc = "united" /\ Coarser(other, mesh) /\ Separated(mesh)
    /\ Len(mesh.orders) = 3 /\ Len(other.orders) = 2 /\ mesh.orders # <<1, 1, 1>>

\* C9 as claimed: a + b returns without recursion when the meshes are equal and
\* after exactly one recursion, on equal meshes, otherwise; it never raises or
\* stops short of returning; the result lives on the union of the meshes.
C9_AddOnUnion ==
    /\ depth <= 1
    /\ pc # "raised"
    /\ pc = "add" => (depth = 1 /\ __eq__(lhs, rhs))
    /\ pc = "returned" =>
          /\ (depth = 0) <=> __eq__(mesh, other)
          /\ EqualsMesh(ret, union(mesh, other))

\* C9 amended: the same, with the result on a's mesh itself when the meshes are
\* equal, which is the union of the meshes when the two have the same
\* breakpoints, consecutive ones at least 1e-12 apart, and on the union of the
\* meshes when they differ.
C9_AddOnUnionOrSelf ==
    /\ depth <= 1
    /\ pc # "raised"
    /\ pc = "add" => (depth = 1 /\ __eq__(lhs, rhs))
    /\ pc = "returned" =>
          /\ (depth = 0) <=> __eq__(mesh, other)
          /\ depth = 0 => ret = mesh
          /\ (depth = 1 \/ (mesh.points = other.points /\ Separated(mesh)))
                => EqualsMesh(ret, union(mesh, other))

\* C9 with the result on the union whenever a's consecutive breakpoints are at
\* least 1e-12 apart: equal meshes may have different breakpoints.
C9_AddOnUnionSeparated ==
    (pc = "returned" /\ (depth = 1 \/ Separated(mesh)))
        => EqualsMesh(ret, union(mesh, other))

\* An addition of equal meshes with different breakpoints, each at least 1e-12
\* from its neighbours in a's mesh, returned on a's mesh, which the union is not.
C9_WitnessEqual ==
    /\ pc = "returned" /\ depth = 0
    /\ mesh.points # other.points /\ Separated(mesh)
    /\ ~EqualsMesh(ret, union(mesh, other))

\* An addition that returned after one recursion on a union finer than both
\* operands' meshes.
C9_Witness ==
    /\ pc = "returned" /\ depth = 1
    /\ Len(ret.orders) > Len(mesh.orders) /\ Len(ret.orders) > Len(other.orders)

----------------------------------------------------------------------------
\* Properties of candidate generation, scoring and substitution.

MinusBig == Score(0 - 1, 0, 1)
PlusBig == Score(1, 0, 1)

\* The number of candidates generated for the elements i.. of m.
RECURSIVE CandCount(_, _)
CandCount(m, i) ==
    IF i > Len(m.orders) THEN 0 ELSE Len(CandsOf(m, i)) + CandCount(m, i + 1)

\* c1 <= c2 on scores; every comparison with nan is False.
ScoreLeq(c1, c2) == ~c1.nan /\ ~c2.nan /\ ~ScoreLess(c2, c1)

\* The error norms the rule is given for candidate j of element i of the coarse
\* mesh: err_cand and err_orig.
RuleErrors(i, j) ==
    LET el == iter_elems(mesh)[i]
        f2 == restrict_to_interval(other, el[1], el[2])
    IN  [cand |-> l2_norm(f2, CandsOf(mesh, i)[j], errs.cand[i][j]),
         orig |-> l2_norm(f2, restrict_to_interval(mesh, el[1], el[2]), errs.orig[i])]

\* The list returned holds one pair for every candidate of every element, a
\* candidate with the DOFs of its element scored -1e10 when err_cand < err_orig
\* and +1e10 otherwise.
C1_OnePairPerCandidate ==
    /\ Len(ret.list) = CandCount(mesh, 1)
    /\ \A i \in 1..Len(mesh.orders) :
          LET cands == CandsOf(mesh, i)
          IN  \A j \in 1..Len(cands) : \E p \in 1..Len(ret.list) :
                  /\ ret.list[p].m = cands[j]
                  /\ dofs(cands[j]) = 1 + mesh.orders[i] =>
                        ret.list[p].crit =
                            IF ErrLess(RuleErrors(i, j).cand, RuleErrors(i, j).orig)
                            THEN MinusBig ELSE PlusBig

\* The scores of the list returned ascend: the first is less than or equal to
\* every other, and a pair scored -1e10 precedes every pair of larger score.
C1_Ascending ==
    LET n == Len(ret.list)
    IN  /\ \A p \in 2..n : ScoreLeq(ret.list[1].crit, ret.list[p].crit)
        /\ \A p, q \in 1..n :
              p < q => ScoreLeq(ret.list[p].crit, ret.list[q].crit)
        /\ \A p, q \in 1..n :
              (ret.list[p].crit = MinusBig /\ ScoreLess(ret.list[p].crit, ret.list[q].crit))
                  => p < q

\* C1 as claimed: the list get_candidates_with_errors returns holds one pair
\* for every candidate of every element, a candidate with the DOFs of its
\* element scored -1e10 when its error is smaller than the element's and +1e10
\* otherwise, and the scores ascend, so that the first is less than or equal to
\* every other and a pair scored -1e10 precedes every pair of larger score.
C1_ScoredListSorted ==
    (pc = "scored" /\ ret.kind = "list") => (C1_OnePairPerCandidate /\ C1_Ascending)

\* What holds of the list returned: one pair for every candidate, scored by the
\* rule; the scores ascend when none of them is nan.  Scored against a
\* reference function on the coarse mesh's interval, the call returns a list
\* unless the logarithm of a zero error raises, and no score of the list is nan.
C1_ScoredListSortedNumbers ==
    /\ (pc = "scored" /\ other = RefMesh(mesh)) => ret.kind \in {"list", "ValueError"}
    /\ (pc = "scored" /\ ret.kind = "list") =>
          /\ C1_OnePairPerCandidate
          /\ (\A p \in 1..Len(ret.list) : ~ret.list[p].crit.nan) => C1_Ascending
          /\ other = RefMesh(mesh) => \A p \in 1..Len(ret.list) : ~ret.list[p].crit.nan

\* The candidates of two elements were scored against a reference function
\* whose mesh has breakpoints within 1e-12 left and right of the end of the
\* first element: scores of the first element's candidates are nan, and the
\* list returned has a pair scored +1e10 first and a pair scored -1e10, a
\* candidate of the second element, behind it.
C1_WitnessNan ==
    /\ pc = "scored" /\ ret.kind = "list" /\ Len(mesh.orders) = 2
    /\ other = RaggedRefMesh(mesh)
    /\ ret.list[1].crit = PlusBig
    /\ \E p, q \in 2..Len(ret.list) :
          /\ ret.list[p].crit.nan
          /\ ret.list[q].crit = MinusBig /\ First(ret.list[q].m) = mesh.points[2]

\* The candidates of two elements were scored; a candidate of the second element
\* with the element's DOFs and a smaller error is first, before candidates of
\* negative, positive and +1e10 score.
C1_Witness ==
    /\ pc = "scored" /\ ret.kind = "list" /\ Len(mesh.orders) = 2
    /\ other = RefMesh(mesh)
    /\ ret.list[1].crit = MinusBig /\ First(ret.list[1].m) = mesh.points[2]
    /\ \E p, q, r \in 2..Len(ret.list) :
          /\ ret.list[p].crit.cls = 0 /\ ret.list[p].crit.num < 0
          /\ ret.list[q].crit.cls = 0 /\ ret.list[q].crit.num > 0
          /\ ret.list[r].crit = PlusBig

\* A reference function whose mesh ends within 1e-12 right of the coarse mesh
\* made the difference f2 - cand raise TypeError.
C1_WitnessRaised ==
    /\ pc = "scored" /\ ret.kind = "TypeError"
    /\ IsMesh(restrict_to_interval(other, mesh.points[Len(mesh.orders)], Last(mesh)))

\* C2 as claimed: every candidate spans the parent's interval, and every
\* candidate of two elements is split at the parent's midpoint (a+b)/2.
C2_CandidatesSplitAtMidpoint ==
    pc = "generated" =>
        \A k \in 1..Len(ret.list) :
            /\ IsMesh(ret.list[k])
            /\ First(ret.list[k]) = elem[1] /\ Last(ret.list[k]) = elem[2]
            /\ Len(ret.list[k].orders) = 2 => 2 * ret.list[k].points[2] = elem[1] + elem[2]

\* Node ids of the parent within 1e-10 of x.
NodesNear(m, x) == {i \in 0..(Len(m.points) - 1) : NodeClose(m.points[i + 1], x)}

\* The first of them.
FirstNear(m, x) == CHOOSE i \in NodesNear(m, x) : \A k \in NodesNear(m, x) : i <= k

\* The elements of r are the elements 0..n1-1 of m, the elements of c and the
\* elements n2.. of m.
IsSplice(r, m, c, n1, n2) ==
    /\ IsMesh(r)
    /\ iter_elems(r) = SubSeq(iter_elems(m), 1, n1) \o iter_elems(c)
                          \o SubSeq(iter_elems(m), n2 + 1, Len(m.orders))

\* The breakpoints of r are the breakpoints 0..n1-1 of m, those of c and the
\* breakpoints n2+1.. of m; the orders of r are the orders of the elements
\* 0..n1-1 of m, of c and of the elements n2.. of m.
IsSpliceOfNodes(r, m, c, n1, n2) ==
    /\ IsMesh(r)
    /\ Len(r.orders) = n1 + Len(c.orders) + Len(m.orders) - n2
    /\ Len(r.points) = Len(r.orders) + 1
    /\ \A k \in 1..n1 : r.points[k] = m.points[k] /\ r.orders[k] = m.orders[k]
    /\ \A k \in 1..Len(c.points) : r.points[n1 + k] = c.points[k]
    /\ \A k \in 1..Len(c.orders) : r.orders[n1 + k] = c.orders[k]
    /\ \A k \in (n2 + 1)..Len(m.orders) :
          /\ r.points[n1 + Len(c.orders) + k - n2 + 1] = m.points[k + 1]
          /\ r.orders[n1 + Len(c.orders) + k - n2] = m.orders[k]

\* C3 as claimed: with the candidate's ends within 1e-10 of the parent's
\* breakpoints n1 < n2, the result is the parent's elements 0..n1-1 unchanged,
\* the candidate's elements, the parent's elements n2.. unchanged; with an end
\* at no parent breakpoint the call fails with 'Node not found'.
C3_UseCandidateSplicesElements ==
    pc = "used" =>
        IF NodesNear(mesh, First(other)) = {} \/ NodesNear(mesh, Last(other)) = {}
        THEN ret.kind = "ValueError"
        ELSE FirstNear(mesh, First(other)) < FirstNear(mesh, Last(other)) =>
                IsSplice(ret, mesh, other, FirstNear(mesh, First(other)),
                         FirstNear(mesh, Last(other)))

\* C3 amended: with n1 < n2 the first parent breakpoints within 1e-10 of the
\* candidate's ends, the result has the parent's breakpoints 0..n1-1, the
\* candidate's breakpoints, the parent's breakpoints n2+1.., and the orders of
\* the parent's elements 0..n1-1, of the candidate, of the parent's elements
\* n2..: the parent's elements next to the candidate end at the candidate's
\* ends, which are the parent's breakpoints only up to 1e-10.  With an end
\* within 1e-10 of no parent breakpoint the call fails with 'Node not found'.
C3_UseCandidateSplicesNodes ==
    pc = "used" =>
        IF NodesNear(mesh, First(other)) = {} \/ NodesNear(mesh, Last(other)) = {}
        THEN ret.kind = "ValueError"
        ELSE FirstNear(mesh, First(other)) < FirstNear(mesh, Last(other)) =>
                IsSpliceOfNodes(ret, mesh, other, FirstNear(mesh, First(other)),
                                FirstNear(mesh, Last(other)))

\* A candidate of two elements replaced the middle element of a parent of three;
\* its left end is off the parent's breakpoint by less than 1e-10.
C3_Witness ==
    /\ pc = "used" /\ IsMesh(ret)
    /\ Len(mesh.orders) = 3 /\ Len(other.orders) = 2
    /\ FirstNear(mesh, First(other)) = 1 /\ FirstNear(mesh, Last(other)) = 2
    /\ First(other) # mesh.points[2]
    /\ Len(ret.orders) = 4

\* A candidate whose right end is within 1e-10 of no parent breakpoint.
C3_WitnessNotFound ==
    /\ pc = "used" /\ ret.kind = "ValueError"
    /\ NodesNear(mesh, First(other)) # {} /\ NodesNear(mesh, Last(other)) = {}

\* C10: every candidate generated for an element has at least the DOFs of the
\* element restricted to its interval, 1 + order, so that the scoring rule does
\* not take the derefinement branch on it whatever the two errors are, and
\* scoring never raises the derefinement failure.
C10_NoDerefinement ==
    /\ pc = "generated" =>
          LET dof_orig == dofs(restrict_to_interval(mesh, elem[1], elem[2]))
          IN  /\ dof_orig = 1 + elem[3]
              /\ \A k \in 1..Len(ret.list) :
                    /\ dofs(ret.list[k]) >= dof_orig
                    /\ \A err_cand, err_orig \in Deviations :
                          crit(dofs(ret.list[k]), err_cand, dof_orig, err_orig).kind
                              # "NotImplementedError"
    /\ pc = "scored" => ret.kind # "NotImplementedError"

\* The candidates of an element of order 2 were generated; the split that
\* lowers both orders has exactly the DOFs of the element.
C10_Witness ==
    /\ pc = "generated" /\ elem[3] = 2 /\ Len(ret.list) = 10
    /\ ret.list[10].orders = <<1, 1>>
    /\ dofs(ret.list[10]) = 1 + elem[3]

----------------------------------------------------------------------------
\* The adaptive loop

\* Strictly increasing breakpoints, one order per element.
WellFormed(m) ==
    /\ IsMesh(m)
    /\ Len(m.points) = Len(m.orders) + 1
    /\ \A i \in 1..Len(m.orders) : m.points[i] < m.points[i + 1]

\* No two breakpoints of m are within the node lookup's tolerance of each other.
NodeSeparated(m) ==
    \A i \in 1..Len(m.orders) : ~NodeClose(m.points[i], m.points[i + 1])

\* C11: after any sequence of adapt steps from a well-formed mesh, use_candidate
\* has not failed with "Node not found", the mesh is well-formed with the first
\* and last breakpoint it started with, and the last step did not lower the DOF
\* count.
C11_LoopKeepsMesh ==
    /\ pc # "raised"
    /\ WellFormed(mesh)
    /\ First(mesh) = xA /\ Last(mesh) = xB
    /\ pc = "adapted" => dofs(mesh) >= dofs(lhs)

\* C11, the part the code keeps: use_candidate never fails on a candidate of an
\* element of the mesh, and a step taken on a well-formed mesh whose breakpoints
\* are at least 1e-10 apart gives a well-formed mesh with the same first and
\* last breakpoint and no fewer DOFs.
C11_LoopKeepsSeparatedMesh ==
    /\ pc # "raised"
    /\ (pc = "adapted" /\ WellFormed(lhs) /\ NodeSeparated(lhs)) =>
          /\ WellFormed(mesh)
          /\ First(mesh) = First(lhs) /\ Last(mesh) = Last(lhs)
          /\ dofs(mesh) >= dofs(lhs)

\* Three steps were taken from one element, each on a mesh with breakpoints at
\* least 1e-10 apart; the last one split an element into two.
C11_Witness ==
    /\ pc = "adapted" /\ depth = MaxDepth
    /\ WellFormed(lhs) /\ NodeSeparated(lhs)
    /\ Len(other.orders) = 2
    /\ Len(mesh.orders) = Len(lhs.orders) + 1
    /\ Len(mesh.orders) > 2

\* A step on a well-formed mesh with an element shorter than 1e-10 left a
\* repeated breakpoint.
C11_WitnessRepeated ==
    /\ pc = "adapted" /\ WellFormed(lhs) /\ ~NodeSeparated(lhs)
    /\ \E i \in 1..Len(mesh.orders) : mesh.points[i] = mesh.points[i + 1]

\* A step on a well-formed mesh with an element shorter than 1e-10 dropped the
\* first element and with it DOFs.
C11_WitnessDropped ==
    /\ pc = "adapted" /\ WellFormed(lhs) /\ ~NodeSeparated(lhs)
    /\ First(mesh) # First(lhs)
    /\ dofs(mesh) < dofs(lhs)

====
